---- MODULE Spec2Model ----
(***************************************************************************)
(* Model of src/core/universal_file_analyzer.py: MIRACATECHFileAnalyzer.   *)
(*                                                                         *)
(* Spec    one analyzer object serving analyze_file_miracatech calls on    *)
(*         one path, split at the file-system calls, with an environment   *)
(*         that may change the file between them.                          *)
(* SpecFn  the pure helpers (_calculate_quadundrum_signature,              *)
(*         _format_file_size, _calculate_equinox_resonance) applied to     *)
(*         inputs drawn from bounded sets.                                 *)
(*                                                                         *)
(* The receiver holds what __init__ assigns at lines 24-39                 *)
(* (supported_analysis_types, quadundrum_frameworks).  The statement at    *)
(* lines 42-48 names four methods the class does not define                *)
(* (_apply_creative_analysis, _apply_logical_analysis,                     *)
(* _apply_meta_creative, _apply_meta_logical), so __init__ as written ends *)
(* there with an                                                           *)
(* AttributeError and x2_processing is never assigned; no method modelled  *)
(* here reads x2_processing.                                               *)
(*                                                                         *)
(* Bytes and code points are integers.  Python ints are unbounded, so a    *)
(* size that can exceed 31 bits is a little-endian sequence of base-1024   *)
(* digits.  A float is kept as an exact fraction [num, den].               *)
(***************************************************************************)
EXTENDS Integers, Sequences, FiniteSets, TLC

VARIABLES
    fs,           \* the file behind the path: exists, readable, content, mtime, atime
    path,         \* file_path, as a sequence of code points
    pc,           \* position of the running call
    callNo,       \* number of the running (or last) call
    level,        \* consciousness_level of the running call
    file_stats,   \* local of _get_consciousness_metadata (os.stat result)
    file_content, \* local of _get_consciousness_metadata (bytes read)
    file_info,    \* the file record
    results,      \* quadundrum_results, filled position by position
    report,       \* the value returned by the running call
    reports,      \* call number -> value it returned
    io,           \* file-system calls made by the running call
    insightExc,   \* exception raised inside the summarizer's try block, if any
    existedAtCheck, \* what os.path.exists answered in the running call
    dirty,        \* the environment changed the file since the first call began
    edits,        \* environment changes so far
    clock,        \* wall clock
    fn, arg, out  \* SpecFn: helper applied, its input, its output

mainVars == <<fs, path, pc, callNo, level, file_stats, file_content, file_info, results, report,
              reports, io, insightExc, existedAtCheck, dirty, edits, clock>>
fnVars == <<fn, arg, out>>
vars == <<mainVars, fnVars>>

None == "none"

Min(a, b) == IF a < b THEN a ELSE b

(***************************************************************************)
(* Bytes                                                                   *)
(***************************************************************************)
Byte == [nl |-> 10, cr |-> 13, sp |-> 32, tab |-> 9, hash |-> 35, comma |-> 44,
         dot |-> 46, one |-> 49, lbrace |-> 123, rbrace |-> 125, a |-> 97, xff |-> 255]

\* "# comment\n\ncode_line\n"
PyExample == <<35, 32, 99, 111, 109, 109, 101, 110, 116, 10, 10,
               99, 111, 100, 101, 95, 108, 105, 110, 101, 10>>

(***************************************************************************)
(* Hex strings and digests                                                 *)
(***************************************************************************)
HexDigits == <<"0", "1", "2", "3", "4", "5", "6", "7",
               "8", "9", "a", "b", "c", "d", "e", "f">>

HexChars == {HexDigits[i] : i \in 1..16}

RECURSIVE Pow(_, _)
Pow(b, e) == IF e = 0 THEN 1 ELSE b * Pow(b, e - 1)

\* n as w lower-case hex digits, most significant first
ToHex(n, w) == [i \in 1..w |-> HexDigits[((n \div Pow(16, w - i)) % 16) + 1]]

HexVal(c) == (CHOOSE i \in 1..16 : HexDigits[i] = c) - 1

\* int(s, 16)
RECURSIVE IntBase16(_)
IntBase16(s) ==
    IF s = <<>> THEN 0
    ELSE 16 * IntBase16(SubSeq(s, 1, Len(s) - 1)) + HexVal(s[Len(s)])

\* A digest stands for hashlib's: a fixed function from bytes to 16 bits,
\* here a multiplicative fold started at seed.
RECURSIVE Mix(_, _, _)
Mix(bytes, h, mult) ==
    IF bytes = <<>> THEN h
    ELSE Mix(Tail(bytes), (h * mult + Head(bytes) + 1) % 65536, mult)

\* hashlib.md5(chunk).hexdigest()[:8]; of the empty chunk "d41d8cd9"
Md5Hex8(chunk) == ToHex(Mix(chunk, 54301, 31), 4) \o ToHex(Mix(chunk, 36057, 37), 4)

\* hashlib.sha256(file_content).hexdigest(), its last 8 characters;
\* of the empty content "7852b855"
Sha256Hex(content) == ToHex(Mix(content, 30802, 41), 4) \o ToHex(Mix(content, 47189, 43), 4)

\* s[-4:]
Last4(s) == SubSeq(s, Len(s) - Min(4, Len(s)) + 1, Len(s))

(***************************************************************************)
(* _calculate_quadundrum_signature                                         *)
(***************************************************************************)
\* content[a:b] for 0 <= a, 0 <= b: both ends are clamped to the length
Slice(s, a, b) ==
    LET lo == Min(a, Len(s))
        hi == Min(b, Len(s))
    IN  IF lo >= hi THEN <<>> ELSE SubSeq(s, lo + 1, hi)

\* a slip: the quarter rounded up
MutQuarterSize(content) == (Len(content) + 3) \div 4

\* quarter_size = len(content) // 4
QuarterSize(content) == Len(content) \div 4

\* the chunk of iteration i of "for i in range(4)"
QuadChunk(content, i) ==
    Slice(content, i * QuarterSize(content), (i + 1) * QuarterSize(content))

RECURSIVE JoinWith(_, _)
\* sep.join(parts)
JoinWith(sep, parts) ==
    IF parts = <<>> THEN <<>>
    ELSE IF Len(parts) = 1 THEN parts[1]
    ELSE parts[1] \o <<sep>> \o JoinWith(sep, Tail(parts))

CalculateQuadundrumSignature(content) ==
    JoinWith("-", [k \in 1..4 |-> Md5Hex8(QuadChunk(content, k - 1))])

(***************************************************************************)
(* _format_file_size                                                       *)
(***************************************************************************)
\* A size is a sequence of base-1024 digits, least significant first.
\* After k divisions by 1024.0 the float holds digits k+1.. before the point
\* and digits k..1 after it; the value is exact (below 2^53).

\* n < 2^30 as three digits
ToDigits(n) == <<n % 1024, (n \div 1024) % 1024, (n \div 1048576) % 1024>>

Units == <<"bytes", "KB", "MB", "GB">>

\* a slip: size_bytes <= 1024.0
MutBelow1024(d, k) ==
    \/ \A i \in (k + 2)..Len(d) : d[i] = 0
    \/ /\ k + 2 <= Len(d)
       /\ d[k + 2] = 1
       /\ \A i \in 1..Len(d) : i # k + 2 => d[i] = 0

\* size_bytes < 1024.0, after k divisions
Below1024(d, k) == \A i \in (k + 2)..Len(d) : d[i] = 0

RECURSIVE WholePart(_, _)
\* the integer part after k divisions
WholePart(d, k) ==
    IF k >= Len(d) THEN 0 ELSE d[k + 1] + 1024 * WholePart(d, k + 1)

RECURSIVE TenFoldFrom(_, _, _, _)
\* the fraction digits (least significant first) times ten, from digit i on:
\* the digits of the new fraction and the carry into the integer part
TenFoldFrom(frac, i, carry, acc) ==
    IF i > Len(frac) THEN [digits |-> acc, carry |-> carry]
    ELSE LET v == frac[i] * 10 + carry
         IN  TenFoldFrom(frac, i + 1, v \div 1024, Append(acc, v % 1024))

TenFold(frac) == TenFoldFrom(frac, 1, 0, <<>>)

\* the fraction 0.f compared with one half: "lt", "eq" or "gt"
CmpHalf(frac) ==
    IF frac = <<>> THEN "lt"
    ELSE LET top == frac[Len(frac)]
             low == \E i \in 1..(Len(frac) - 1) : frac[i] # 0
         IN  IF top > 512 \/ (top = 512 /\ low) THEN "gt"
             ELSE IF top = 512 THEN "eq" ELSE "lt"

\* f"{size_bytes:.1f} {unit}": correctly rounded to one decimal, ties to even
Render(d, k, unit) ==
    LET t     == TenFold(SubSeq(d, 1, Min(k, Len(d))))
        c     == CmpHalf(t.digits)
        up    == c = "gt" \/ (c = "eq" /\ t.carry % 2 = 1)
        tenth == IF up THEN t.carry + 1 ELSE t.carry
        whole == WholePart(d, k)
    IN  IF tenth = 10 THEN [whole |-> whole + 1, tenth |-> 0, unit |-> unit]
        ELSE [whole |-> whole, tenth |-> tenth, unit |-> unit]

RECURSIVE FormatLoop(_, _)
\* the loop over the units, entered with k divisions done
FormatLoop(d, k) ==
    IF k < Len(Units)
    THEN IF Below1024(d, k) THEN Render(d, k, Units[k + 1]) ELSE FormatLoop(d, k + 1)
    ELSE Render(d, k, "TB")

FormatFileSize(d) == FormatLoop(d, 0)

(***************************************************************************)
(* _calculate_equinox_resonance                                            *)
(***************************************************************************)
\* len(file_content) % 432
ResonanceFrequency(n) == n % 432

SizeResonance(info) == [num |-> info.size_bytes % 320, den |-> 320]

\* a slip: the modulo left out
MutHashResonance(info) ==
    [num |-> IntBase16(Last4(info.consciousness_hash)), den |-> 432]

HashResonance(info) ==
    [num |-> IntBase16(Last4(info.consciousness_hash)) % 432, den |-> 432]

FrequencyResonance(info) == [num |-> info.resonance_frequency, den |-> 432]

\* (size_resonance + hash_resonance + frequency_resonance) / 3, over 3 * 320 * 432
CalculateEquinoxResonance(info) ==
    [num |-> SizeResonance(info).num * 432
               + (HashResonance(info).num + FrequencyResonance(info).num) * 320,
     den |-> 3 * 320 * 432]

(***************************************************************************)
(* Paths: pathlib.Path(file_path).name, .suffix.lower(); mimetypes         *)
(***************************************************************************)
UpperLetters == <<"A", "B", "C", "D", "E", "F", "G", "H", "I", "J", "K", "L", "M",
                  "N", "O", "P", "Q", "R", "S", "T", "U", "V", "W", "X", "Y", "Z">>
LowerLetters == <<"a", "b", "c", "d", "e", "f", "g", "h", "i", "j", "k", "l", "m",
                  "n", "o", "p", "q", "r", "s", "t", "u", "v", "w", "x", "y", "z">>

LowerChar(c) ==
    IF \E i \in 1..26 : UpperLetters[i] = c
    THEN LowerLetters[CHOOSE i \in 1..26 : UpperLetters[i] = c]
    ELSE c

\* str.lower()
Lower(s) == [i \in 1..Len(s) |-> LowerChar(s[i])]

\* s.rfind(c), 1-based; 0 when c does not occur
RFind(s, c) ==
    IF \E i \in 1..Len(s) : s[i] = c
    THEN CHOOSE i \in 1..Len(s) : s[i] = c /\ \A j \in (i + 1)..Len(s) : s[j] # c
    ELSE 0

\* Path(p).name: the last component
NameOf(p) == SubSeq(p, RFind(p, "/") + 1, Len(p))

\* Path(p).suffix: from the last dot of the name, unless that dot leads or ends it
Suffix(p) ==
    LET name == NameOf(p)
        i    == RFind(name, ".")
    IN  IF 1 < i /\ i < Len(name) THEN SubSeq(name, i, Len(name)) ELSE <<>>

Ext == [json |-> <<".", "j", "s", "o", "n">>,
        csv  |-> <<".", "c", "s", "v">>,
        py   |-> <<".", "p", "y">>,
        js   |-> <<".", "j", "s">>,
        sol  |-> <<".", "s", "o", "l">>,
        txt  |-> <<".", "t", "x", "t">>]

\* mimetypes.guess_type(file_path): <<type, encoding>> by extension, case-insensitive
GuessType(p) ==
    LET e == Lower(Suffix(p))
    IN  IF e = Ext.json THEN <<"application/json", None>>
        ELSE IF e = Ext.csv THEN <<"text/csv", None>>
        ELSE IF e = Ext.py THEN <<"text/x-python", None>>
        ELSE IF e = Ext.js THEN <<"text/javascript", None>>
        ELSE IF e = Ext.txt THEN <<"text/plain", None>>
        ELSE <<None, None>>

(***************************************************************************)
(* Text: open(path, 'r').read(), str.split, str.strip, json.load,          *)
(* csv.reader                                                              *)
(***************************************************************************)
\* bytes that occur in no UTF-8 text (the contents modelled hold no other
\* byte above 127)
InvalidUtf8Byte(b) == b \in ({192, 193} \cup (245..255))

RECURSIVE UniversalNewlines(_)
\* text mode: "\r\n" and "\r" are read as "\n"
UniversalNewlines(t) ==
    IF t = <<>> THEN <<>>
    ELSE IF Head(t) = Byte.cr
         THEN IF Len(t) >= 2 /\ t[2] = Byte.nl
              THEN <<Byte.nl>> \o UniversalNewlines(SubSeq(t, 3, Len(t)))
              ELSE <<Byte.nl>> \o UniversalNewlines(Tail(t))
         ELSE <<Head(t)>> \o UniversalNewlines(Tail(t))

\* f.read() of a text-mode file: the text, or a UnicodeDecodeError
ReadText(bytes) ==
    IF \E i \in 1..Len(bytes) : InvalidUtf8Byte(bytes[i])
    THEN [exc |-> "UnicodeDecodeError", text |-> <<>>]
    ELSE [exc |-> None, text |-> UniversalNewlines(bytes)]

RECURSIVE SplitOn(_, _)
\* s.split(sep): always at least one piece
SplitOn(s, sep) ==
    IF \E i \in 1..Len(s) : s[i] = sep
    THEN LET i == CHOOSE k \in 1..Len(s) : s[k] = sep /\ \A j \in 1..(k - 1) : s[j] # sep
         IN  <<SubSeq(s, 1, i - 1)>> \o SplitOn(SubSeq(s, i + 1, Len(s)), sep)
    ELSE <<s>>

Whitespace == {9, 10, 11, 12, 13, 28, 29, 30, 31, 32, 133, 160}

RECURSIVE LStrip(_, _)
LStrip(s, ws) == IF s # <<>> /\ Head(s) \in ws THEN LStrip(Tail(s), ws) ELSE s

RECURSIVE RStrip(_, _)
RStrip(s, ws) ==
    IF s # <<>> /\ s[Len(s)] \in ws THEN RStrip(SubSeq(s, 1, Len(s) - 1), ws) ELSE s

\* line.strip()
Strip(s) == RStrip(LStrip(s, Whitespace), Whitespace)

\* line.strip().startswith('#')
IsComment(line) == Strip(line) # <<>> /\ Head(Strip(line)) = Byte.hash

\* line.strip() is truthy
NonBlank(line) == Strip(line) # <<>>

\* len([line for line in lines if line.strip()])
CountNonBlank(lines) == Cardinality({i \in 1..Len(lines) : NonBlank(lines[i])})

\* len([line for line in lines if line.strip().startswith('#')])
CountComments(lines) == Cardinality({i \in 1..Len(lines) : IsComment(lines[i])})

JsonWhitespace == {9, 10, 13, 32}

\* json.loads(text) for texts without quotes, brackets or the letters of
\* null/true/false together: an integer, the empty object, or a JSONDecodeError
JsonLoads(text) ==
    LET body == RStrip(LStrip(text, JsonWhitespace), JsonWhitespace)
        inner == IF Len(body) >= 2 THEN SubSeq(body, 2, Len(body) - 1) ELSE <<>>
        isInt == /\ body # <<>>
                 /\ \A i \in 1..Len(body) : body[i] \in 48..57
                 /\ (body[1] # 48 \/ Len(body) = 1)
        isObj == /\ Len(body) >= 2
                 /\ body[1] = Byte.lbrace
                 /\ body[Len(body)] = Byte.rbrace
                 /\ \A i \in 1..Len(inner) : inner[i] \in JsonWhitespace
    IN  IF isInt THEN [exc |-> None, kind |-> "int", keys |-> 0]
        ELSE IF isObj THEN [exc |-> None, kind |-> "dict", keys |-> 0]
        ELSE [exc |-> "JSONDecodeError", kind |-> None, keys |-> 0]

\* list(csv.reader(f)) for texts without quotes: one row per line, a blank line
\* gives the empty row
CsvRows(text) ==
    LET pieces == SplitOn(text, Byte.nl)
        lines  == IF pieces[Len(pieces)] = <<>>
                  THEN SubSeq(pieces, 1, Len(pieces) - 1) ELSE pieces
    IN  [i \in 1..Len(lines) |->
            IF lines[i] = <<>> THEN <<>> ELSE SplitOn(lines[i], Byte.comma)]

\* _calculate_code_consciousness
CalculateCodeConsciousness(code) == Len(SplitOn(code, Byte.nl))

(***************************************************************************)
(* _analyze_internal_structure                                             *)
(***************************************************************************)
DefaultSummary ==
    [internal_coherence |-> TRUE, structural_integrity |-> 0,
     consciousness_depth |-> 0, details |-> <<>>]

\* open(file_path, mode): the exception it raises on file f, or None
OpenFile(f) ==
    IF ~f.exists THEN "FileNotFoundError"
    ELSE IF ~f.readable THEN "PermissionError"
    ELSE None

\* a slip: .txt handled as source code
MutDispatchTxt(extension) ==
    IF extension = Ext.json THEN "json"
    ELSE IF extension = Ext.csv THEN "csv"
    ELSE IF extension \in {Ext.py, Ext.js, Ext.sol, Ext.txt} THEN "code"
    ELSE None

\* a slip: a final else that reads every other file as source code
MutDispatchElse(extension) ==
    IF extension = Ext.json THEN "json"
    ELSE IF extension = Ext.csv THEN "csv"
    ELSE "code"

\* the branch of the if/elif chain the extension selects
Dispatch(extension) ==
    IF extension = Ext.json THEN "json"
    ELSE IF extension = Ext.csv THEN "csv"
    ELSE IF extension \in {Ext.py, Ext.js, Ext.sol} THEN "code"
    ELSE None

JsonUpdate(data) ==
    [structural_integrity |-> 1, consciousness_depth |-> 1,
     details |-> [consciousness_keys |-> IF data.kind = "dict" THEN data.keys ELSE 0,
                  awareness_depth |-> 1,
                  energy_types |-> <<>>]]

CsvUpdate(rows) ==
    [structural_integrity |-> IF rows # <<>> THEN Len(rows[1]) ELSE 0,
     consciousness_depth |-> Len(rows),
     details |-> [data_dimensions |-> IF rows # <<>> THEN Len(rows[1]) ELSE 0,
                  consciousness_records |-> Len(rows),
                  energy_headers |-> IF rows # <<>> THEN rows[1] ELSE <<>>]]

CodeUpdate(code) ==
    LET lines == SplitOn(code, Byte.nl)
    IN  [structural_integrity |-> Len(lines),
         consciousness_depth |-> CalculateCodeConsciousness(code),
         details |-> [consciousness_lines |-> CountNonBlank(lines),
                      total_expressions |-> Len(lines),
                      wisdom_comments |-> CountComments(lines)]]

\* the body of the try: the exception it raises (or None), the update of the
\* result, and the opens and reads it made
TryBlock(extension, f) ==
    LET branch == Dispatch(extension)
        opened == OpenFile(f)
        rd     == ReadText(f.content)
        data   == JsonLoads(rd.text)
    IN  IF branch = None
        THEN [exc |-> None, update |-> <<>>, opens |-> 0, reads |-> 0]
        ELSE IF opened # None
        THEN [exc |-> opened, update |-> <<>>, opens |-> 1, reads |-> 0]
        ELSE IF rd.exc # None
        THEN [exc |-> rd.exc, update |-> <<>>, opens |-> 1, reads |-> 1]
        ELSE IF branch = "json"
        THEN IF data.exc # None
             THEN [exc |-> data.exc, update |-> <<>>, opens |-> 1, reads |-> 1]
             ELSE [exc |-> None, update |-> JsonUpdate(data), opens |-> 1, reads |-> 1]
        ELSE IF branch = "csv"
        THEN [exc |-> None, update |-> CsvUpdate(CsvRows(rd.text)), opens |-> 1, reads |-> 1]
        ELSE [exc |-> None, update |-> CodeUpdate(rd.text), opens |-> 1, reads |-> 1]

\* result.update(u)
DictUpdate(result, u) ==
    [k \in DOMAIN result \cup DOMAIN u |-> IF k \in DOMAIN u THEN u[k] ELSE result[k]]

\* a slip: "except OSError" in place of "except Exception", so that decoding
\* and parsing errors leave the summarizer
MutAnalyzeInternalStructure(extension, f) ==
    LET t == TryBlock(extension, f)
        caught == t.exc \in {"FileNotFoundError", "PermissionError"}
    IN  [value  |-> IF t.exc = None
                    THEN DictUpdate(DefaultSummary, t.update)
                    ELSE DictUpdate(DefaultSummary,
                                    [internal_coherence |-> FALSE, error |-> t.exc]),
         raised |-> IF t.exc = None \/ caught THEN None ELSE t.exc,
         exc    |-> t.exc,
         opens  |-> t.opens,
         reads  |-> t.reads]

\* The summarizer: value is what it returns, raised the exception it lets
\* through (None: "except Exception" catches every one), exc the exception
\* its try block raised.
AnalyzeInternalStructure(extension, f) ==
    LET t == TryBlock(extension, f)
    IN  [value  |-> IF t.exc = None
                    THEN DictUpdate(DefaultSummary, t.update)
                    ELSE DictUpdate(DefaultSummary,
                                    [internal_coherence |-> FALSE, error |-> t.exc]),
         raised |-> None,
         exc    |-> t.exc,
         opens  |-> t.opens,
         reads  |-> t.reads]

(***************************************************************************)
(* The other positions, the X2 layers and the constant sections            *)
(***************************************************************************)
Positions == <<"outsight", "insight", "overview", "innerview">>

AnalyzeExternalPatterns ==
    [external_compatibility |-> "high", market_relevance |-> "significant",
     industry_standards |-> "compliant", ecosystem_integration |-> "excellent"]

AnalyzeMetaRelationships ==
    [system_relationships |-> <<>>, pattern_recognition |-> <<>>,
     consciousness_connections |-> <<>>, holistic_assessment |-> "unified"]

AnalyzeConsciousnessCore ==
    [quantum_signature |-> "quantum_coherent",
     consciousness_resonance |-> [num |-> 85, den |-> 100],
     transcendent_patterns |-> <<"unity", "transcendence">>,
     unity_field_analysis |-> "strong_unity_field"]

\* the except clause of the position loop
FailedPosition(msg) ==
    [error |-> msg, status |-> "failed", consciousness_note |-> "Position needs attention"]

SynthesizeToUnity == [primary_insight |-> "Consciousness-tech synthesis achieved"]

ApplyX2Processing(base) ==
    [base_analysis |-> base, x2_creative |-> base, x2_logical |-> base,
     unified_synthesis |-> SynthesizeToUnity,
     consciousness_amplification |-> [num |-> 5, den |-> 2]]

GenerateConsciousnessInsights(x2) ==
    [i \in 1..Len(Positions) |->
        [position |-> Positions[i],
         insight  |-> x2[Positions[i]].unified_synthesis.primary_insight]]
    \o <<"File exhibits consciousness-tech resonance patterns",
         "MIRACATECH processing reveals hidden synchronicities">>

GeneratePicseesInsights ==
    [intuitive_patterns |-> "Deep emotional resonance detected in file structure",
     spiritual_significance |-> "File contains transcendent organizational wisdom",
     flow_analysis |-> "Consciousness flows naturally through data patterns",
     vision_potential |-> "High potential for consciousness-technology bridge"]

GenerateHurausRecommendations ==
    <<[action |-> "Implement consciousness-aware optimization", priority |-> "high",
       benefit |-> "Enhanced file processing with awareness integration"],
      [action |-> "Apply MIRACATECH enhancement protocols", priority |-> "medium",
       benefit |-> "Transform file into consciousness-tech bridge"],
      [action |-> "Integrate with quadundrum processing system", priority |-> "high",
       benefit |-> "Enable 5->10 consciousness amplification"]>>

GenerateAsurTranscendentView ==
    [transcendent_nature |-> "File serves as consciousness bridge between dimensions",
     divine_purpose |-> "Facilitates resurrection of technology through awareness",
     cosmic_significance |-> "Part of larger consciousness evolution pattern",
     spring_equinox_alignment |-> "Perfect balance point for transformation activation"]

NotFoundRecord == [error |-> "File not found", status |-> "failed"]

\* datetime.fromtimestamp(t).isoformat(), datetime.now().isoformat()
IsoFormat(t) == <<"iso", t>>

\* the record _get_consciousness_metadata returns
ConsciousnessMetadata(p, st, content) ==
    [name |-> NameOf(p),
     extension |-> Lower(Suffix(p)),
     size_bytes |-> st.st_size,
     size_human |-> FormatFileSize(ToDigits(st.st_size)),
     created |-> IsoFormat(st.st_ctime),
     modified |-> IsoFormat(st.st_mtime),
     mime_type |-> GuessType(p)[1],
     encoding |-> GuessType(p)[2],
     consciousness_hash |-> Sha256Hex(content),
     resonance_frequency |-> ResonanceFrequency(Len(content)),
     path |-> p,
     quadundrum_signature |-> CalculateQuadundrumSignature(content)]

\* the dictionary analyze_file_miracatech returns for an existing file
FinalAnalysis(info, quad, now, lvl) ==
    LET x2 == [pos \in DOMAIN quad |-> ApplyX2Processing(quad[pos])]
    IN  [miracatech_metadata |-> info,
         quadundrum_analysis |-> x2,
         consciousness_insights |-> GenerateConsciousnessInsights(x2),
         picsees_vision |-> GeneratePicseesInsights,
         huraus_action |-> GenerateHurausRecommendations,
         asur_wisdom |-> GenerateAsurTranscendentView,
         timestamp |-> IsoFormat(now),
         consciousness_level |-> lvl,
         spring_equinox_energy |-> CalculateEquinoxResonance(info)]

(***************************************************************************)
(* Bounds and inputs                                                       *)
(***************************************************************************)
MaxLen == 1          \* longest generated file content
MaxEdits == 1        \* changes the environment makes to the file
MaxCalls == 2        \* calls of analyze_file_miracatech
MaxSigLen == 9       \* longest content given to the signature helper
MaxSizeDigits == 5   \* base-1024 digits of a size given to the size formatter

Alphabet == {Byte.nl, Byte.hash, Byte.one, Byte.xff}

SeqsUpTo(S, n) == UNION {[1..k -> S] : k \in 0..n}

\* "a,b,c\n1,2,3\n4,5,6"
CsvExample == <<97, 44, 98, 44, 99, 10, 49, 44, 50, 44, 51, 10, 52, 44, 53, 44, 54>>

\* "{ }\n"
JsonExample == <<Byte.lbrace, Byte.sp, Byte.rbrace, Byte.nl>>

\* "#\r\n\ta"
CrExample == <<Byte.hash, Byte.cr, Byte.nl, Byte.tab, Byte.a>>

Contents == SeqsUpTo(Alphabet, MaxLen) \cup {PyExample, CsvExample, JsonExample, CrExample}

Paths == {<<"a", ".", "j", "s", "o", "n">>,
          <<"A", ".", "J", "S", "O", "N">>,
          <<"a", ".", "c", "s", "v">>,
          <<"d", "/", "a", ".", "p", "y">>,
          <<"a", ".", "j", "s">>,
          <<"a", ".", "S", "o", "l">>,
          <<"a", ".", "t", "x", "t">>,
          <<".", "p", "y">>}

\* consciousness_level: 'full' by default, not validated
DefaultLevel == "full"
Levels == {DefaultLevel, "quick"}

(***************************************************************************)
(* State                                                                   *)
(***************************************************************************)
NoIO == [exists |-> 0, stat |-> 0, open |-> 0, read |-> 0]

FnIdle == fn = None /\ arg = <<>> /\ out = <<>>

Init ==
    /\ \E e \in BOOLEAN, r \in BOOLEAN, c \in Contents :
          fs = IF e THEN [exists |-> TRUE, readable |-> r, content |-> c,
                          mtime |-> 0, ctime |-> 0, atime |-> 0]
               ELSE [exists |-> FALSE, readable |-> FALSE, content |-> <<>>,
                     mtime |-> 0, ctime |-> 0, atime |-> 0]
    /\ path \in Paths
    /\ pc = "idle"
    /\ callNo = 0
    /\ level = None
    /\ file_stats = <<>>
    /\ file_content = <<>>
    /\ file_info = <<>>
    /\ results = <<>>
    /\ report = <<>>
    /\ reports = <<>>
    /\ io = NoIO
    /\ insightExc = None
    /\ existedAtCheck = FALSE
    /\ dirty = FALSE
    /\ edits = 0
    /\ clock = 0
    /\ FnIdle

\* the call ends: with a returned value, or with an exception leaving it
Return(value) ==
    /\ pc' = "returned"
    /\ report' = value
    /\ reports' = Append(reports, value)

Raise(exc) ==
    /\ pc' = "raised"
    /\ report' = [raised |-> exc]
    /\ reports' = Append(reports, [raised |-> exc])

\* a slip: the existence check left out
MutPathExists(f) == TRUE

\* os.path.exists(file_path)
PathExists(f) == f.exists

(***************************************************************************)
(* analyze_file_miracatech, split at its file-system calls                 *)
(***************************************************************************)
\* entry and "if not os.path.exists(file_path): return {...}"
Call ==
    /\ pc \in {"idle", "returned", "raised"}
    /\ callNo < MaxCalls
    /\ callNo' = callNo + 1
    /\ level' \in IF callNo = 0 THEN {DefaultLevel} ELSE Levels
    /\ file_stats' = <<>>
    /\ file_content' = <<>>
    /\ file_info' = <<>>
    /\ results' = <<>>
    /\ insightExc' = None
    /\ io' = [NoIO EXCEPT !.exists = 1]
    /\ existedAtCheck' = fs.exists
    /\ dirty' = IF callNo = 0 THEN FALSE ELSE dirty
    /\ IF PathExists(fs)
       THEN pc' = "stat" /\ report' = <<>> /\ UNCHANGED reports
       ELSE Return(NotFoundRecord)
    /\ UNCHANGED <<fs, path, edits, clock, fnVars>>

\* a slip: the access time taken for the modification time
MutStatResult(f) ==
    [st_size |-> Len(f.content), st_mtime |-> f.atime, st_ctime |-> f.ctime]

\* os.stat(file_path) on an existing file
StatResult(f) ==
    [st_size |-> Len(f.content), st_mtime |-> f.mtime, st_ctime |-> f.ctime]

\* file_stats = os.stat(file_path)
Stat ==
    /\ pc = "stat"
    /\ io' = [io EXCEPT !.stat = @ + 1]
    /\ IF fs.exists
       THEN /\ file_stats' = StatResult(fs)
            /\ pc' = "read"
            /\ UNCHANGED <<report, reports>>
       ELSE /\ Raise("FileNotFoundError")
            /\ UNCHANGED file_stats
    /\ UNCHANGED <<fs, path, callNo, level, file_content, file_info, results,
                   insightExc, existedAtCheck, dirty, edits, clock, fnVars>>

\* with open(file_path, 'rb') as f: file_content = f.read() ... return {...}
ReadBinary ==
    /\ pc = "read"
    /\ IF OpenFile(fs) = None
       THEN /\ io' = [io EXCEPT !.open = @ + 1, !.read = @ + 1]
            /\ fs' = [fs EXCEPT !.atime = @ + 1]
            /\ file_content' = fs.content
            /\ file_info' = ConsciousnessMetadata(path, file_stats, fs.content)
            /\ pc' = "positions"
            /\ UNCHANGED <<report, reports>>
       ELSE /\ io' = [io EXCEPT !.open = @ + 1]
            /\ Raise(OpenFile(fs))
            /\ UNCHANGED <<fs, file_content, file_info>>
    /\ UNCHANGED <<path, callNo, level, file_stats, results, insightExc,
                   existedAtCheck, dirty, edits, clock, fnVars>>

\* one iteration of "for position, analyzer in self.quadundrum_frameworks.items()"
Done(n) == pc = "positions" /\ Cardinality(DOMAIN results) = n

Store(pos, outcome) ==
    /\ results' = results @@ (pos :> IF outcome.raised = None THEN outcome.value
                                     ELSE FailedPosition(outcome.raised))
    /\ pc' = IF Cardinality(DOMAIN results) + 1 = Len(Positions)
             THEN "compose" ELSE "positions"

Pure(value) == [value |-> value, raised |-> None]

AnalyzeOutsight ==
    /\ Done(0)
    /\ Store("outsight", Pure(AnalyzeExternalPatterns))
    /\ UNCHANGED <<fs, path, callNo, level, file_stats, file_content, file_info, report,
                   reports, io, insightExc, existedAtCheck, dirty, edits, clock, fnVars>>

AnalyzeInsight ==
    /\ Done(1)
    /\ LET r == AnalyzeInternalStructure(file_info.extension, fs)
       IN  /\ Store("insight", r)
           /\ io' = [io EXCEPT !.open = @ + r.opens, !.read = @ + r.reads]
           /\ fs' = [fs EXCEPT !.atime = @ + r.reads]
           /\ insightExc' = r.exc
    /\ UNCHANGED <<path, callNo, level, file_stats, file_content, file_info, report,
                   reports, existedAtCheck, dirty, edits, clock, fnVars>>

AnalyzeOverview ==
    /\ Done(2)
    /\ Store("overview", Pure(AnalyzeMetaRelationships))
    /\ UNCHANGED <<fs, path, callNo, level, file_stats, file_content, file_info, report,
                   reports, io, insightExc, existedAtCheck, dirty, edits, clock, fnVars>>

AnalyzeInnerview ==
    /\ Done(3)
    /\ Store("innerview", Pure(AnalyzeConsciousnessCore))
    /\ UNCHANGED <<fs, path, callNo, level, file_stats, file_content, file_info, report,
                   reports, io, insightExc, existedAtCheck, dirty, edits, clock, fnVars>>

\* the X2 layers, the constant sections, the timestamp and the return
Compose ==
    /\ pc = "compose"
    /\ Return(FinalAnalysis(file_info, results, clock, level))
    /\ clock' = clock + 1
    /\ UNCHANGED <<fs, path, callNo, level, file_stats, file_content, file_info, results,
                   io, insightExc, existedAtCheck, dirty, edits, fnVars>>

(***************************************************************************)
(* The environment: other processes changing the file                      *)
(***************************************************************************)
\* A change is placed just before a file-system call of the analyzer or
\* between two calls: it commutes with the steps that touch no file, and
\* what the file is before the first call is Init's choice.
Edit(f) ==
    /\ callNo >= 1
    /\ pc \in {"stat", "read", "returned", "raised"} \/ Done(1)
    /\ edits < MaxEdits
    /\ edits' = edits + 1
    /\ fs' = f
    /\ dirty' = TRUE
    /\ UNCHANGED <<path, pc, callNo, level, file_stats, file_content, file_info, results,
                   report, reports, io, insightExc, existedAtCheck, clock, fnVars>>

EnvAppend ==
    /\ fs.exists
    /\ Edit([fs EXCEPT !.content = Append(@, Byte.xff), !.mtime = @ + 1, !.ctime = @ + 1])

EnvTruncate ==
    /\ fs.exists
    /\ fs.content # <<>>
    /\ Edit([fs EXCEPT !.content = <<>>, !.mtime = @ + 1, !.ctime = @ + 1])

EnvDelete ==
    /\ fs.exists
    /\ Edit([fs EXCEPT !.exists = FALSE, !.readable = FALSE, !.content = <<>>])

EnvChmod ==
    /\ fs.exists
    /\ Edit([fs EXCEPT !.readable = ~@, !.ctime = @ + 1])

EnvCreate ==
    /\ ~fs.exists
    /\ Edit([exists |-> TRUE, readable |-> TRUE, content |-> <<Byte.a>>,
             mtime |-> fs.mtime + 1, ctime |-> fs.ctime + 1, atime |-> fs.atime])

Next ==
    \/ Call
    \/ Stat
    \/ ReadBinary
    \/ AnalyzeOutsight
    \/ AnalyzeInsight
    \/ AnalyzeOverview
    \/ AnalyzeInnerview
    \/ Compose
    \/ EnvAppend
    \/ EnvTruncate
    \/ EnvDelete
    \/ EnvChmod
    \/ EnvCreate

Spec == Init /\ [][Next]_vars

(***************************************************************************)
(* SpecFn: the pure helpers on bounded inputs                              *)
(***************************************************************************)
SigBytes == {Byte.a, Byte.nl}

\* digits around the unit and rounding boundaries
SampleDigits == {0, 1, 256, 512, 972, 973, 1023}

\* sizes below 2^53, where the float arithmetic is exact
SizeInputs ==
    {d \in [1..MaxSizeDigits -> SampleDigits] : \A i \in 6..MaxSizeDigits : d[i] <= 1}

EquinoxSizes == {0, 1, 319, 320, 431, 432, 639, 640, 863, 864, 1536, 138239, 138240}

HashInputs == {ToHex(30802, 4) \o ToHex(v, 4) : v \in {0, 431, 432, 47189, 65231, 65535}}

MainIdle ==
    /\ fs = [exists |-> FALSE, readable |-> FALSE, content |-> <<>>,
             mtime |-> 0, ctime |-> 0, atime |-> 0]
    /\ path = <<>>
    /\ callNo = 0
    /\ level = None
    /\ file_stats = <<>>
    /\ file_content = <<>>
    /\ results = <<>>
    /\ report = <<>>
    /\ reports = <<>>
    /\ io = NoIO
    /\ insightExc = None
    /\ existedAtCheck = FALSE
    /\ dirty = FALSE
    /\ edits = 0
    /\ clock = 0

InitFn ==
    /\ MainIdle
    /\ pc = "apply"
    /\ file_info = <<>>
    /\ out = <<>>
    /\ \/ fn = "signature" /\ arg \in SeqsUpTo(SigBytes, MaxSigLen)
       \/ fn = "format" /\ arg \in SizeInputs
       \/ fn = "equinox" /\ arg \in [st_size : EquinoxSizes, length : EquinoxSizes,
                                     hash : HashInputs]

Applied ==
    /\ pc = "apply"
    /\ pc' = "applied"
    /\ UNCHANGED <<fs, path, callNo, level, file_stats, file_content, results, report,
                   reports, io, insightExc, existedAtCheck, dirty, edits, clock, fn, arg>>

\* _calculate_quadundrum_signature(content), with the chunk of each iteration
ApplySignature ==
    /\ fn = "signature"
    /\ Applied
    /\ out' = [chunks |-> [k \in 1..4 |-> QuadChunk(arg, k - 1)],
               signature |-> CalculateQuadundrumSignature(arg)]
    /\ UNCHANGED file_info

\* _format_file_size(size_bytes)
ApplyFormat ==
    /\ fn = "format"
    /\ Applied
    /\ out' = FormatFileSize(arg)
    /\ UNCHANGED file_info

\* the fields _get_consciousness_metadata sets and _calculate_equinox_resonance reads
ApplyEquinox ==
    /\ fn = "equinox"
    /\ Applied
    /\ LET info == [size_bytes |-> arg.st_size,
                    consciousness_hash |-> arg.hash,
                    resonance_frequency |-> ResonanceFrequency(arg.length)]
       IN  /\ file_info' = info
           /\ out' = CalculateEquinoxResonance(info)

NextFn ==
    \/ ApplySignature
    \/ ApplyFormat
    \/ ApplyEquinox

SpecFn == InitFn /\ [][NextFn]_vars

(***************************************************************************)
(* Properties                                                              *)
(***************************************************************************)
ParsedExtensions == {Ext.json, Ext.csv, Ext.py, Ext.js, Ext.sol}

ReportKeys ==
    {"miracatech_metadata", "quadundrum_analysis", "consciousness_insights",
     "picsees_vision", "huraus_action", "asur_wisdom", "timestamp",
     "consciousness_level", "spring_equinox_energy"}

InsightDone == "insight" \in DOMAIN results

InCall == callNo >= 1

\* r is a full report: every key, the four positions, the constant sections
FullReport(r) ==
    /\ DOMAIN r = ReportKeys
    /\ DOMAIN r.quadundrum_analysis = {Positions[i] : i \in 1..Len(Positions)}
    /\ r.picsees_vision = GeneratePicseesInsights
    /\ r.huraus_action = GenerateHurausRecommendations
    /\ r.asur_wisdom = GenerateAsurTranscendentView
    /\ Len(r.consciousness_insights) = 6

\* C1: a call on a path that does not exist ends at the existence check: it
\* returns exactly {"error": "File not found", "status": "failed"} and has
\* made no stat, no open and no read.
C1_NotFoundNoIO ==
    (InCall /\ ~existedAtCheck) =>
        /\ pc = "returned"
        /\ report = NotFoundRecord
        /\ DOMAIN report = {"error", "status"}
        /\ io.stat = 0 /\ io.open = 0 /\ io.read = 0

C1_Witness ==
    /\ callNo = 1 /\ ~existedAtCheck /\ pc = "returned"
    /\ report = NotFoundRecord /\ io = [NoIO EXCEPT !.exists = 1]

C3_SizeMatchesContent ==
    "size_bytes" \in DOMAIN file_info => file_info.size_bytes = Len(file_content)

C7_PyExampleCounts ==
    (InCall /\ InsightDone /\ edits = 0 /\ file_info.extension = Ext.py
        /\ file_content = PyExample /\ insightExc = None) =>
        /\ results.insight.details.total_expressions = 3
        /\ results.insight.details.consciousness_lines = 2
        /\ results.insight.details.wisdom_comments = 1

\* two returned values agree but for the timestamp and the level tag
SameButStamp(r1, r2) ==
    /\ DOMAIN r1 = DOMAIN r2
    /\ \A k \in DOMAIN r1 \ {"timestamp", "consciousness_level"} : r1[k] = r2[k]

\* C9: calls on a file nothing changed meanwhile return the same file
\* record, the same structural summary and the same derived scalar; the
\* reports differ at most in the timestamp and in the level tag.
C9_RepeatableReport ==
    ~dirty =>
        \A i \in DOMAIN reports : \A j \in DOMAIN reports :
            SameButStamp(reports[i], reports[j])

C9_Witness ==
    /\ ~dirty /\ Len(reports) = 2
    /\ FullReport(reports[1]) /\ FullReport(reports[2])
    /\ reports[1].miracatech_metadata = reports[2].miracatech_metadata
    /\ reports[1].timestamp # reports[2].timestamp
    /\ reports[1].consciousness_level # reports[2].consciousness_level
    /\ reports[1].miracatech_metadata.extension = Ext.csv
    /\ reports[1].quadundrum_analysis.insight.base_analysis.consciousness_depth = 3

\* C10: for an extension outside .json, .csv, .py, .js, .sol (compared in
\* lower case) the summarizer opens and reads nothing and returns the
\* default summary, whatever the content; inside the set it opens the file.
C10_OtherExtensionsUntouched ==
    (InCall /\ InsightDone) =>
        /\ path = <<"A", ".", "J", "S", "O", "N">> => file_info.extension = Ext.json
        /\ path = <<"a", ".", "S", "o", "l">> => file_info.extension = Ext.sol
        /\ path = <<".", "p", "y">> => file_info.extension = <<>>
        /\ IF file_info.extension \in ParsedExtensions
           THEN io.open = 2
           ELSE /\ results.insight = DefaultSummary
                /\ "error" \notin DOMAIN results.insight
                /\ insightExc = None
                /\ io.open = 1 /\ io.read = 1

C10_Witness ==
    /\ InCall /\ InsightDone
    /\ file_info.extension = Ext.txt
    /\ file_content = <<Byte.xff>>
    /\ results.insight = DefaultSummary
    /\ io.open = 1

FnApplied(f) == pc = "applied" /\ fn = f

IsHex8(g) == Len(g) = 8 /\ \A i \in 1..8 : g[i] \in HexChars

\* C5: the signature is built from the four ranges [i*q, (i+1)*q), i = 0..3,
\* q = n div 4 (contiguous, disjoint, of size q; the last n mod 4 bytes in
\* none); each range, also an empty one, gives one group of 8 hex
\* characters, and the groups are joined by '-'.
C5_FourEqualRanges ==
    FnApplied("signature") =>
        LET n == Len(arg)
            q == n \div 4
            groups == SplitOn(out.signature, "-")
        IN  /\ \A i \in 0..3 :
                  /\ Len(out.chunks[i + 1]) = q
                  /\ \A j \in 1..q : out.chunks[i + 1][j] = arg[i * q + j]
            /\ 4 * q + (n % 4) = n
            /\ Len(groups) = 4
            /\ \A i \in 1..4 : IsHex8(groups[i]) /\ groups[i] = Md5Hex8(out.chunks[i])
            /\ Len(out.signature) = 35

C5_Witness ==
    /\ FnApplied("signature")
    /\ Len(arg) = 3
    /\ \A i \in 1..4 : out.chunks[i] = <<>>
    /\ out.signature = JoinWith("-", [i \in 1..4 |-> <<"d", "4", "1", "d", "8", "c", "d", "9">>])

InUnit(t) == 0 <= t.num /\ t.num < t.den

\* C6: the derived scalar is the average of (size_bytes mod 320)/320,
\* (last 4 hex characters of the hash, as an integer, mod 432)/432 and
\* resonance_frequency/432; each term and the scalar lie in [0, 1).
C6_ScalarInUnitInterval ==
    FnApplied("equinox") =>
        LET a == [num |-> file_info.size_bytes % 320, den |-> 320]
            b == [num |-> IntBase16(Last4(file_info.consciousness_hash)) % 432, den |-> 432]
            c == [num |-> file_info.resonance_frequency, den |-> 432]
        IN  /\ SizeResonance(file_info) = a
            /\ HashResonance(file_info) = b
            /\ FrequencyResonance(file_info) = c
            /\ InUnit(a) /\ InUnit(b) /\ InUnit(c)
            /\ out.den = 3 * 320 * 432
            /\ out.num = 432 * a.num + 320 * b.num + 320 * c.num
            /\ InUnit(out)

C6_Witness ==
    /\ FnApplied("equinox")
    /\ file_info.size_bytes % 320 = 319
    /\ file_info.resonance_frequency = 431
    /\ IntBase16(Last4(file_info.consciousness_hash)) = 65231
    /\ out.num = 432 * 319 + 320 * 431 + 320 * 431

AllUnits == Units \o <<"TB">>

\* index of the highest non-zero digit, 0 for the size 0
TopDigit(d) ==
    IF \E i \in 1..Len(d) : d[i] # 0
    THEN CHOOSE i \in 1..Len(d) : d[i] # 0 /\ \A j \in (i + 1)..Len(d) : d[j] = 0
    ELSE 0

\* divisions by 1024 until the value is below 1024, at most four
UnitIndex(d) == IF TopDigit(d) <= 1 THEN 0 ELSE Min(TopDigit(d) - 1, 4)

SizeOf(n) == [i \in 1..MaxSizeDigits |-> IF i <= 3 THEN ToDigits(n)[i] ELSE 0]

\* C8 as claimed: the value shown with a unit bytes..GB is below 1024.
C8_ShownBelow1024 ==
    (FnApplied("format") /\ out.unit # "TB") => out.whole < 1024

\* C8 as amended: the unit is the first of bytes, KB, MB, GB at which the
\* size divided repeatedly by 1024 is below 1024 (TB when none is); with
\* bytes..GB the value before rounding to one decimal is below 1024 and the
\* value shown is at most 1024.0; 0 gives "0.0 bytes", 1536 gives "1.5 KB".
C8_FirstUnitBelow1024 ==
    FnApplied("format") =>
        LET k == UnitIndex(arg)
        IN  /\ out.unit = AllUnits[k + 1]
            /\ out.tenth \in 0..9
            /\ k < 4 =>
                  /\ arg[k + 1] < 1024
                  /\ out.whole \in {arg[k + 1], arg[k + 1] + 1}
                  /\ out.whole <= 1024
                  /\ out.whole = 1024 => out.tenth = 0
            /\ arg = SizeOf(0) => out = [whole |-> 0, tenth |-> 0, unit |-> "bytes"]
            /\ arg = SizeOf(1536) => out = [whole |-> 1, tenth |-> 5, unit |-> "KB"]

C8_Witness ==
    /\ FnApplied("format")
    /\ arg = [i \in 1..MaxSizeDigits |-> IF i = 1 THEN 973 ELSE IF i = 2 THEN 1023 ELSE 0]
    /\ out = [whole |-> 1024, tenth |-> 0, unit |-> "KB"]

====
